---- MODULE Spec2Model ----
(***************************************************************************)
(* State-machine model of src/bot.py (discord-summary-bot): the message    *)
(* retention buffer, the time-window query, the scheduled multi-tenant     *)
(* fan-out, the summarization call with its local fallback, the usage      *)
(* counter and the one-minute scheduler loop.                              *)
(*                                                                         *)
(* Instants are counted in hours (the unit of every timedelta in the       *)
(* code); one unit of skew stands for any positive skew.                   *)
(***************************************************************************)
EXTENDS Integers, Sequences, FiniteSets, TLC

VARIABLES
    now,              \* datetime.now(timezone.utc), in hours
    message_buffers,  \* guild_id -> ordered dict (channel_id -> deque of MessageData)
    query,            \* the last get_messages_in_timerange call and what it returned
    cleaned,          \* the last cleanup_old_messages run: the buffers it started from
    clock_steps,      \* how many times the clock has advanced (bounds the run)
    today,            \* datetime.now().date(), in days
    daily_api_calls,  \* the process-wide usage counter
    last_reset_date,  \* the date the counter was last reset on
    counted,          \* successful summarization calls since the counter's last reset
    tasks,            \* per tenant: the coroutine working for it, where it is suspended
    server_configs,   \* ordered dict guild_id -> config object (slots, deleted ones kept)
    config_objects,   \* the config dict objects ever created, by identity
    guilds,           \* the guilds in the client's cache (bot.guilds, bot.get_guild)
    pending,          \* event handlers dispatched and not run yet
    parallel,         \* PARALLEL_SUMMARY
    fan,              \* post_scheduled_summary: where the fan-out is
    delivered,        \* digests posted by summary_channel.send in this fan-out
    wall,             \* the wall clock datetime.now() reads, seconds since Monday 00:00
    next_iteration,   \* tasks.loop: when the next iteration is due
    ticks,            \* iterations of scheduled_summary_task so far
    triggers,         \* the calls of post_scheduled_summary it has made
    MAX_MESSAGES_PER_SUMMARY,  \* the configured cap, read from the environment
    usage_shown,      \* the count the api_usage command displayed last, <<>> before the first
    counted_today     \* successful summarization calls counted since the date last changed

bufVars == <<now, message_buffers, query, cleaned, clock_steps>>
apiVars == <<today, daily_api_calls, last_reset_date, counted>>
regVars == <<server_configs, config_objects, guilds, pending>>
fanVars == <<parallel, fan, delivered>>

schedVars == <<wall, next_iteration, ticks, triggers>>

cfgVars == <<MAX_MESSAGES_PER_SUMMARY>>

usageVars == <<usage_shown, counted_today>>

vars == <<bufVars, apiVars, tasks, regVars, fanVars, schedVars, cfgVars, usageVars>>

----------------------------------------------------------------------------
(* Bounds of the model *)

MaxMsgs == 2
MaxClockSteps == 2

GuildIds == {1, 2}
ChannelIds == {1, 2}
Skews == {0, 1}

(* Program constants *)

RETENTION_HOURS == 168
BOT_CHANNEL_NAME == "summary-chan"

ChannelNames == {"general", "random"}
HoursBack == {6, 24, 168}
ClockSteps == {6, 168}

None == "None"

----------------------------------------------------------------------------
(* Ordered dictionaries (dict, defaultdict): a sequence of [key, val]        *)
(* entries in insertion order.                                               *)

RECURSIVE DictIndex(_, _, _)
DictIndex(d, k, i) ==
    IF i > Len(d) THEN 0
    ELSE IF d[i].key = k THEN i
    ELSE DictIndex(d, k, i + 1)

DictHas(d, k) == DictIndex(d, k, 1) # 0

DictGet(d, k) == d[DictIndex(d, k, 1)].val

DictPut(d, k, v) ==
    IF DictHas(d, k)
    THEN [d EXCEPT ![DictIndex(d, k, 1)].val = v]
    ELSE Append(d, [key |-> k, val |-> v])

----------------------------------------------------------------------------
(* MessageData, built from the platform's message event *)

MessageData(author, content, created_at, channel_name, channel_id, attachments, embeds) ==
    [author |-> author, content |-> content, timestamp |-> created_at,
     channel_name |-> channel_name, channel_id |-> channel_id,
     attachments |-> attachments, embeds |-> embeds]

(* message_buffers[guild_id]: the defaultdict yields an empty dict for an    *)
(* absent key; BufferOf reads it without modelling the insertion.            *)
BufferOf(g) == IF g \in DOMAIN message_buffers THEN message_buffers[g] ELSE <<>>

(* message_buffers[guild_id] as a side effect: the key now exists *)
Touch(buffers, g) ==
    IF g \in DOMAIN buffers THEN buffers
    ELSE [x \in (DOMAIN buffers) \cup {g} |-> IF x = g THEN <<>> ELSE buffers[x]]

BufferAppend(buffers, g, c, m) ==
    LET b == Touch(buffers, g)
        old == IF DictHas(b[g], c) THEN DictGet(b[g], c) ELSE <<>>
    IN [b EXCEPT ![g] = DictPut(b[g], c, Append(old, m))]

RECURSIVE TotalLen(_, _)
TotalLen(d, i) == IF i > Len(d) THEN 0 ELSE Len(d[i].val) + TotalLen(d, i + 1)

Buffered == LET S == DOMAIN message_buffers
                RECURSIVE Sum(_)
                Sum(T) == IF T = {} THEN 0
                          ELSE LET g == CHOOSE x \in T : TRUE
                               IN TotalLen(message_buffers[g], 1) + Sum(T \ {g})
            IN Sum(S)

----------------------------------------------------------------------------
(* get_messages_in_timerange *)

InRange(msg, cutoff_time) == msg.timestamp > cutoff_time

FilterMessages(messages, cutoff_time) ==
    SelectSeq(messages, LAMBDA msg : InRange(msg, cutoff_time))

RECURSIVE GroupByName(_, _, _, _)
GroupByName(channels, cutoff_time, i, acc) ==
    IF i > Len(channels) THEN acc
    ELSE LET filtered_messages == FilterMessages(channels[i].val, cutoff_time)
         IN IF filtered_messages # <<>>
            THEN GroupByName(channels, cutoff_time, i + 1,
                     DictPut(acc, filtered_messages[1].channel_name, filtered_messages))
            ELSE GroupByName(channels, cutoff_time, i + 1, acc)

get_messages_in_timerange(buffers, t, guild_id, hours_back) ==
    GroupByName(Touch(buffers, guild_id)[guild_id], t - hours_back, 1, <<>>)

----------------------------------------------------------------------------
(* cleanup_old_messages *)

RECURSIVE PopOld(_, _)
PopOld(messages, cutoff_time) ==
    IF messages # <<>> /\ messages[1].timestamp < cutoff_time
    THEN PopOld(Tail(messages), cutoff_time)
    ELSE messages

cleanup_old_messages(buffers, t) ==
    [g \in DOMAIN buffers |->
        [i \in 1..Len(buffers[g]) |->
            [key |-> buffers[g][i].key,
             val |-> PopOld(buffers[g][i].val, t - RETENTION_HOURS)]]]

----------------------------------------------------------------------------
(* Actions of the buffer *)

NoQuery == [guild |-> 0, hours_back |-> 0, result |-> <<>>]
IdleFan ==
    [pc |-> "idle", hours_back |-> 0, is_weekly |-> FALSE, order |-> <<>>,
     started |-> <<>>, it_pos |-> 0, it_len |-> 0, it_used |-> 0, error |-> None]
NoClean == [ran |-> FALSE, before |-> <<>>]

on_message(g, c, name, is_bot, created_at) ==
    /\ Buffered < MaxMsgs
    /\ IF is_bot \/ name = BOT_CHANNEL_NAME
       THEN UNCHANGED message_buffers
       ELSE message_buffers' = BufferAppend(message_buffers, g, c,
                MessageData(IF is_bot THEN "robo" ELSE "alice", <<"h", "i">>, created_at,
                            name, c, 0, 0))
    /\ query' = NoQuery
    /\ cleaned' = NoClean
    /\ UNCHANGED <<cfgVars, usageVars, schedVars, now, clock_steps, apiVars, tasks, regVars, fanVars>>

OnMessage ==
    \E g \in GuildIds, c \in ChannelIds, name \in ChannelNames \cup {BOT_CHANNEL_NAME},
       is_bot \in BOOLEAN, skew \in Skews :
        /\ now - skew >= 0
        /\ on_message(g, c, name, is_bot, now - skew)

QueryRange ==
    \E g \in GuildIds, h \in HoursBack :
        /\ query' = [guild |-> g, hours_back |-> h,
                     result |-> get_messages_in_timerange(message_buffers, now, g, h)]
        /\ message_buffers' = Touch(message_buffers, g)
        /\ cleaned' = NoClean
        /\ UNCHANGED <<cfgVars, usageVars, schedVars, now, clock_steps, apiVars, tasks, regVars, fanVars>>

Cleanup ==
    /\ cleaned' = [ran |-> TRUE, before |-> message_buffers]
    /\ message_buffers' = cleanup_old_messages(message_buffers, now)
    /\ query' = NoQuery
    /\ UNCHANGED <<cfgVars, usageVars, schedVars, now, clock_steps, apiVars, tasks, regVars, fanVars>>

AdvanceClock ==
    \E d \in ClockSteps :
        /\ clock_steps < MaxClockSteps
        /\ clock_steps' = clock_steps + 1
        /\ now' = now + d
        /\ query' = NoQuery
        /\ cleaned' = NoClean
        /\ UNCHANGED <<cfgVars, usageVars, schedVars, message_buffers, apiVars, tasks, regVars, fanVars>>


----------------------------------------------------------------------------
(* Text. A message's content is a sequence of characters.                    *)

Lower(ch) == CASE ch = "H" -> "h" [] ch = "W" -> "w" [] ch = "A" -> "a" [] OTHER -> ch

LowerText(s) == [i \in 1..Len(s) |-> Lower(s[i])]

IsSpace(ch) == ch = " "

(* str.split(): the words between runs of whitespace *)
RECURSIVE SplitText(_, _, _, _)
SplitText(s, i, word, acc) ==
    IF i > Len(s) THEN (IF word = <<>> THEN acc ELSE Append(acc, word))
    ELSE IF IsSpace(s[i])
         THEN SplitText(s, i + 1, <<>>, IF word = <<>> THEN acc ELSE Append(acc, word))
         ELSE SplitText(s, i + 1, Append(word, s[i]), acc)

Words(content) == SplitText(LowerText(content), 1, <<>>, <<>>)

Text(t) == [text |-> t, lines |-> <<>>]
KeywordLines(l) == [text |-> "", lines |-> l]

NothingToSummarize == Text("nothing to summarize")
GenerationFailed == Text("summary generation failed")
NoTopicFound == Text("no particular topic found")
Narrative == Text("narrative of the service")

----------------------------------------------------------------------------
(* generate_simple_summary *)

MinWordLen == 4
TopWords == 3

RECURSIVE CountWords(_, _, _)
CountWords(words, i, content_words) ==
    IF i > Len(words) THEN content_words
    ELSE CountWords(words, i + 1,
             IF Len(words[i]) > MinWordLen
             THEN DictPut(content_words, words[i],
                      (IF DictHas(content_words, words[i])
                       THEN DictGet(content_words, words[i]) ELSE 0) + 1)
             ELSE content_words)

RECURSIVE CountMessages(_, _, _)
CountMessages(messages, i, content_words) ==
    IF i > Len(messages) THEN content_words
    ELSE CountMessages(messages, i + 1,
             CountWords(Words(messages[i].content), 1, content_words))

(* sorted(items, key=count, reverse=True) is stable: an item goes after every item *)
(* whose count is at least its own.                                        *)
(* an unstable sort: an item goes before the items of its own count *)
InsertBeforeEqual(sorted, item) ==
    LET k == Cardinality({j \in 1..Len(sorted) : sorted[j].val > item.val})
    IN SubSeq(sorted, 1, k) \o <<item>> \o SubSeq(sorted, k + 1, Len(sorted))

InsertByCount(sorted, item) ==
    LET k == Cardinality({j \in 1..Len(sorted) : sorted[j].val >= item.val})
    IN SubSeq(sorted, 1, k) \o <<item>> \o SubSeq(sorted, k + 1, Len(sorted))

RECURSIVE SortByCount(_, _, _)
SortByCount(items, i, sorted) ==
    IF i > Len(items) THEN sorted
    ELSE SortByCount(items, i + 1, InsertByCount(sorted, items[i]))

TopOf(content_words) ==
    LET sorted == SortByCount(content_words, 1, <<>>)
    IN SubSeq(sorted, 1, IF Len(sorted) < TopWords THEN Len(sorted) ELSE TopWords)

RECURSIVE SummaryLines(_, _, _)
SummaryLines(messages_by_channel, i, summaries) ==
    IF i > Len(messages_by_channel) THEN summaries
    ELSE LET top_words == TopOf(CountMessages(messages_by_channel[i].val, 1, <<>>))
         IN SummaryLines(messages_by_channel, i + 1,
                IF top_words # <<>>
                THEN Append(summaries,
                         [channel |-> messages_by_channel[i].key,
                          keywords |-> [j \in 1..Len(top_words) |-> top_words[j].key]])
                ELSE summaries)

generate_simple_summary(messages_by_channel) ==
    LET summaries == SummaryLines(messages_by_channel, 1, <<>>)
    IN IF summaries # <<>> THEN KeywordLines(summaries) ELSE NoTopicFound

----------------------------------------------------------------------------
(* summarize_all_channels_async: from its entry to the network call, and     *)
(* from the end of the call to its return.                                   *)

ApiOutcomes == {"content", "empty", "timeout", "error"}

(* any(messages_by_channel.values()) *)
AnyMessages(messages_by_channel) ==
    \E i \in 1..Len(messages_by_channel) : messages_by_channel[i].val # <<>>

(* a config whose summary_channel is None, and the channel setup_guild binds *)
NoChannel == [id |-> 0, name |-> ""]
BotChannel == [id |-> 9, name |-> BOT_CHANNEL_NAME]

IdleTask ==
    [pc |-> "idle", input |-> <<>>, is_weekly |-> FALSE, api_calls |-> 0,
     api_outcome |-> None, result |-> Text(""),
     run |-> 0, config |-> 0, queried |-> FALSE, sending |-> NoChannel, end |-> None,
     document |-> <<>>]

(* the date check at the entry *)
ResetOnNewDate ==
    IF today # last_reset_date
    THEN /\ daily_api_calls' = 0
         /\ last_reset_date' = today
         /\ counted' = 0
    ELSE UNCHANGED <<daily_api_calls, last_reset_date, counted>>

(* messages[-n:] as Python slices it: the last n for n > 0, everything for   *)
(* n = 0, everything but the first -n for n < 0                              *)
LastN(messages, n) ==
    IF n > 0
    THEN SubSeq(messages, IF Len(messages) > n THEN Len(messages) - n + 1 ELSE 1,
                Len(messages))
    ELSE SubSeq(messages, 1 - n, Len(messages))

(* the line written for one message *)
MessageText(msg) ==
    [author |-> msg.author, content |-> msg.content,
     attachments |-> IF msg.attachments > 0 THEN msg.attachments ELSE 0,
     embeds |-> IF msg.embeds > 0 THEN msg.embeds ELSE 0]

MaxMessages(is_weekly) ==
    IF is_weekly THEN MAX_MESSAGES_PER_SUMMARY * 2 ELSE MAX_MESSAGES_PER_SUMMARY

(* all_conversations: one block per sub-channel that has messages *)
RECURSIVE Conversations(_, _, _, _)
Conversations(messages_by_channel, is_weekly, i, all_conversations) ==
    IF i > Len(messages_by_channel) THEN all_conversations
    ELSE Conversations(messages_by_channel, is_weekly, i + 1,
             IF messages_by_channel[i].val = <<>> THEN all_conversations
             ELSE LET capped == LastN(messages_by_channel[i].val, MaxMessages(is_weekly))
                  IN Append(all_conversations,
                         [channel |-> messages_by_channel[i].key,
                          texts |-> [j \in 1..Len(capped) |-> MessageText(capped[j])]]))

EnterSummarize(t, messages_by_channel, is_weekly) ==
    IF ~AnyMessages(messages_by_channel)
    THEN [t EXCEPT !.pc = "returned", !.input = messages_by_channel,
                   !.is_weekly = is_weekly, !.api_calls = 0, !.api_outcome = None,
                   !.result = NothingToSummarize]
    ELSE [t EXCEPT !.pc = "await_api", !.input = messages_by_channel,
                   !.is_weekly = is_weekly, !.api_calls = 1, !.api_outcome = None,
                   !.result = Text(""),
                   !.document = Conversations(messages_by_channel, is_weekly, 1, <<>>)]

(* the counter bumped for every attempt, not only for a call that returned *)
CallsAfterAttempt(calls, outcome) == calls + 1

CallsAfter(calls, outcome) ==
    IF outcome \in {"content", "empty"} THEN calls + 1 ELSE calls

SummaryOf(messages_by_channel, outcome) ==
    CASE outcome = "content" -> Narrative
      [] outcome = "empty" -> GenerationFailed
      [] outcome = "timeout" -> generate_simple_summary(messages_by_channel)
      [] outcome = "error" -> generate_simple_summary(messages_by_channel)

(* only the timeout handled *)
HandlesTimeoutOnly(outcome) == outcome = "timeout"

(* except asyncio.TimeoutError / except Exception *)
Handles(outcome) == outcome \in {"timeout", "error"}

LeaveSummarize(t, outcome) ==
    IF outcome \in {"timeout", "error"} /\ ~Handles(outcome)
    THEN [t EXCEPT !.pc = "raised", !.api_outcome = outcome]
    ELSE [t EXCEPT !.pc = "returned", !.api_outcome = outcome,
                   !.result = SummaryOf(t.input, outcome)]

----------------------------------------------------------------------------
(* Direct invocations of summarize_all_channels_async, one coroutine per     *)
(* tenant at a time, on inputs drawn from SummInputs.                        *)

MaxCalls == 2
MaxDay == 1

TxtHello == <<"H", "e", "l", "l", "o", " ", "h", "e", "l", "l", "o", " ",
              "W", "o", "r", "l", "d", "s">>
TxtShort == <<"h", "i">>
TxtMany == <<"b", "b", "b", "b", "b", " ", "a", "a", "a", "a", "a", " ", " ",
             "c", "c", "c", "c", "c", " ", "A", "a", "a", "a", "a", " ",
             "d", "d", "d", "d", "d", " ", "e", "e", "e", "e">>

MsgIn(content, name, id) == MessageData("alice", content, 1, name, id, 0, 0)
MsgAt(content, created_at) == MessageData("alice", content, created_at, "general", 1, 0, 1)

SummInputs ==
    { <<>>,
      <<[key |-> "general", val |-> <<>>]>>,
      <<[key |-> "general", val |-> <<MsgIn(TxtHello, "general", 1)>>]>>,
      <<[key |-> "general", val |-> <<MsgIn(TxtShort, "general", 1)>>]>>,
      <<[key |-> "general", val |-> <<>>],
        [key |-> "random", val |-> <<MsgIn(TxtHello, "random", 2)>>]>>,
      <<[key |-> "general", val |-> <<MsgIn(TxtHello, "general", 1),
                                      MsgIn(TxtShort, "general", 1)>>],
        [key |-> "random", val |-> <<MsgIn(TxtHello, "random", 2)>>]>>,
      <<[key |-> "general", val |-> <<MsgAt(TxtShort, 1), MsgAt(TxtHello, 2),
                                      MsgAt(TxtShort, 3)>>]>>,
      <<[key |-> "general", val |-> <<MsgIn(TxtShort, "general", 1)>>],
        [key |-> "random", val |-> <<MsgIn(TxtMany, "random", 2),
                                     MsgIn(TxtHello, "random", 2)>>]>> }

Summarize ==
    \E k \in GuildIds, messages_by_channel \in SummInputs, is_weekly \in BOOLEAN :
        /\ tasks[k].pc \in {"idle", "returned"}
        /\ daily_api_calls < MaxCalls
        /\ ResetOnNewDate
        /\ tasks' = [tasks EXCEPT ![k] =
                         EnterSummarize(IdleTask, messages_by_channel, is_weekly)]
        /\ UNCHANGED <<cfgVars, usageVars, schedVars, today, bufVars, regVars, fanVars>>

SummarizeReturn ==
    \E k \in GuildIds, outcome \in ApiOutcomes :
        /\ tasks[k].pc = "await_api"
        /\ daily_api_calls' = CallsAfter(daily_api_calls, outcome)
        /\ counted' = IF outcome \in {"content", "empty"} THEN counted + 1 ELSE counted
        /\ counted_today' = IF outcome \in {"content", "empty"}
                            THEN counted_today + 1 ELSE counted_today
        /\ tasks' = [tasks EXCEPT ![k] = LeaveSummarize(tasks[k], outcome)]
        /\ UNCHANGED <<cfgVars, usage_shown, schedVars, today, last_reset_date, bufVars, regVars, fanVars>>

DayRollover ==
    /\ today < MaxDay
    /\ today' = today + 1
    /\ counted_today' = 0
    /\ UNCHANGED <<cfgVars, usage_shown, schedVars, daily_api_calls, last_reset_date, counted, tasks, bufVars, regVars, fanVars>>

(* The state after the module is loaded (src/bot.py:68-77) *)
InitAll ==
    /\ now = 1
    /\ message_buffers = <<>>
    /\ query = NoQuery
    /\ cleaned = NoClean
    /\ clock_steps = 0
    /\ today = 0
    /\ daily_api_calls = 0
    /\ last_reset_date = 0
    /\ counted = 0
    /\ tasks = [g \in GuildIds |-> IdleTask]
    /\ server_configs = <<>>
    /\ config_objects = <<>>
    /\ guilds = {}
    /\ pending = {}
    /\ parallel = TRUE
    /\ fan = IdleFan
    /\ delivered = {}
    /\ MAX_MESSAGES_PER_SUMMARY = 100
    /\ wall = 0
    /\ next_iteration = 0
    /\ ticks = 0
    /\ triggers = <<>>
    /\ usage_shown = <<>>
    /\ counted_today = 0

NextSumm == Summarize \/ SummarizeReturn \/ DayRollover

SpecSumm == InitAll /\ [][NextSumm]_vars

(* the same invocations under every small value the cap can be configured to *)
CapChoices == {0, 1, 2}

InitCap ==
    /\ MAX_MESSAGES_PER_SUMMARY \in CapChoices
    /\ now = 1
    /\ message_buffers = <<>>
    /\ query = NoQuery
    /\ cleaned = NoClean
    /\ clock_steps = 0
    /\ today = 0
    /\ daily_api_calls = 0
    /\ last_reset_date = 0
    /\ counted = 0
    /\ tasks = [g \in GuildIds |-> IdleTask]
    /\ server_configs = <<>>
    /\ config_objects = <<>>
    /\ guilds = {}
    /\ pending = {}
    /\ parallel = TRUE
    /\ fan = IdleFan
    /\ wall = 0
    /\ next_iteration = 0
    /\ ticks = 0
    /\ triggers = <<>>
    /\ usage_shown = <<>>
    /\ counted_today = 0
    /\ delivered = {}

SpecCap == InitCap /\ [][NextSumm]_vars


----------------------------------------------------------------------------
(* server_configs: a dict keeps its slots in insertion order; del leaves the *)
(* slot behind, a store to a present key reuses its slot, a store to an      *)
(* absent key takes a new slot at the end.                                   *)

MaxConfigs == 3
MaxRemovals == 1

LiveIndex(cfgs, guild_id) ==
    IF \E i \in 1..Len(cfgs) : cfgs[i].key = guild_id /\ cfgs[i].live
    THEN CHOOSE i \in 1..Len(cfgs) : cfgs[i].key = guild_id /\ cfgs[i].live
    ELSE 0

Used(cfgs) == Cardinality({i \in 1..Len(cfgs) : cfgs[i].live})

LiveSlots(cfgs) == SelectSeq(cfgs, LAMBDA e : e.live)

(* the first live slot at or after pos, 0 when there is none *)
NextLive(cfgs, pos) ==
    IF \E i \in pos..Len(cfgs) : cfgs[i].live
    THEN CHOOSE i \in pos..Len(cfgs) :
             cfgs[i].live /\ \A j \in pos..(i - 1) : ~cfgs[j].live
    ELSE 0

DictStore(cfgs, guild_id, ref) ==
    IF LiveIndex(cfgs, guild_id) # 0
    THEN [cfgs EXCEPT ![LiveIndex(cfgs, guild_id)].ref = ref]
    ELSE Append(cfgs, [key |-> guild_id, live |-> TRUE, ref |-> ref])

DictDelete(cfgs, guild_id) ==
    IF LiveIndex(cfgs, guild_id) # 0
    THEN [cfgs EXCEPT ![LiveIndex(cfgs, guild_id)].live = FALSE]
    ELSE cfgs

(* the tenant's messages left where they are *)
BufferKept(buffers, g) == buffers

(* del message_buffers[guild_id] *)
BufferDrop(buffers, g) == [x \in (DOMAIN buffers) \ {g} |-> buffers[x]]

HandlersFor(guild_id) == {h \in pending : h[2] = guild_id}

(* the fan-out is suspended at an await: other handlers get to run *)
Quiescent == fan.pc \in {"gather", "seq_wait"}

(* the library takes the guild into its cache and dispatches on_guild_join *)
guild_join(g) ==
    /\ g \notin guilds
    /\ HandlersFor(g) = {}
    /\ Len(config_objects) + Cardinality(pending) < MaxConfigs
    /\ guilds' = guilds \cup {g}
    /\ pending' = pending \cup {<<"on_guild_join", g>>}
    /\ UNCHANGED <<cfgVars, usageVars, schedVars, server_configs, config_objects, bufVars, apiVars, tasks, fanVars>>

(* setup_guild past its await, called by on_guild_join or by on_ready's loop: *)
(* a fresh config object is stored under the guild's key                     *)
setup_guild(g, bot_channel) ==
    \E h \in {"on_guild_join", "on_ready"} :
        /\ <<h, g>> \in pending
        /\ config_objects' = Append(config_objects,
                                 [summary_channel |-> bot_channel, enabled |-> TRUE])
        /\ server_configs' = DictStore(server_configs, g, Len(config_objects) + 1)
        /\ pending' = pending \ {<<h, g>>}
        /\ UNCHANGED <<cfgVars, usageVars, schedVars, guilds, bufVars, apiVars, tasks, fanVars>>

(* the library drops the guild from its cache and dispatches on_guild_remove *)
guild_remove(g) ==
    /\ g \in guilds
    /\ HandlersFor(g) = {}
    /\ Len(server_configs) - Used(server_configs) + Cardinality(pending) < MaxRemovals
    /\ guilds' = guilds \ {g}
    /\ pending' = pending \cup {<<"on_guild_remove", g>>}
    /\ UNCHANGED <<cfgVars, usageVars, schedVars, server_configs, config_objects, bufVars, apiVars, tasks, fanVars>>

on_guild_remove(g) ==
    /\ <<"on_guild_remove", g>> \in pending
    /\ server_configs' = DictDelete(server_configs, g)
    /\ message_buffers' = BufferDrop(message_buffers, g)
    /\ pending' = pending \ {<<"on_guild_remove", g>>}
    /\ UNCHANGED <<cfgVars, usageVars, schedVars, now, query, cleaned, clock_steps, config_objects, guilds,
                   apiVars, tasks, fanVars>>

(* the guild events while a fan-out is suspended *)
GuildJoin == \E g \in GuildIds : Quiescent /\ guild_join(g)

SetupGuild ==
    \E g \in GuildIds, bot_channel \in {BotChannel, NoChannel} :
        Quiescent /\ setup_guild(g, bot_channel)

GuildRemove == \E g \in GuildIds : Quiescent /\ guild_remove(g)

OnGuildRemove == \E g \in GuildIds : Quiescent /\ on_guild_remove(g)

----------------------------------------------------------------------------
(* post_scheduled_summary and its process_guild                              *)

SUMMARY_SCHEDULE ==
    << [hour |-> 21, minute |-> 0, hours_back |-> 24],
       [hour |-> 3, minute |-> 0, hours_back |-> 6],
       [hour |-> 9, minute |-> 0, hours_back |-> 6] >>

WEEKLY_SUMMARY_SCHEDULE ==
    [weekday |-> 0, hour |-> 21, minute |-> 0, hours_back |-> 168]

(* the calls scheduled_summary_task makes: (schedule_info, is_weekly) *)
Triggers ==
    { [hours_back |-> SUMMARY_SCHEDULE[i].hours_back, is_weekly |-> FALSE] :
          i \in 1..Len(SUMMARY_SCHEDULE) }
    \cup { [hours_back |-> WEEKLY_SUMMARY_SCHEDULE.hours_back, is_weekly |-> TRUE] }

(* permissions_for(guild.me).send_messages: true, false, or the lookup raises *)
Perms == {"granted", "denied", "raises"}
(* summary_channel.send: posted, discord.Forbidden, any other exception *)
SendOutcomes == {"ok", "forbidden", "error"}
Errors == {"forbidden", "error"}

(* the check on the window left out *)
NeverSkips(messages_by_channel) == FALSE

(* if messages_by_channel: ... else: skip *)
SkipsEmpty(messages_by_channel) == messages_by_channel = <<>>

(* except discord.Forbidden / except Exception around the run's body *)
Caught(err) == err \in {"forbidden", "error"}

(* gather with return_exceptions=True; the sequential loop has nothing *)
Swallowed(par) == par

(* neither the except clauses nor return_exceptions: the error goes up *)
PropagatesUnguarded(err, par) == TRUE

(* does an error in one run reach the caller of post_scheduled_summary *)
Propagates(err, par) == ~Caught(err) /\ ~Swallowed(par)

RunFails(t, err) == [t EXCEPT !.pc = "finished", !.end = err]

(* from the embed to the send: the channel is read from the config again *)
Deliver(t, perm) ==
    LET summary_channel == config_objects[t.config].summary_channel
    IN  IF summary_channel = NoChannel
        THEN [t EXCEPT !.pc = "finished", !.end = "unbound"]
        ELSE CASE perm = "denied" ->
                      [t EXCEPT !.pc = "finished", !.end = "no_permission"]
               [] perm = "raises" -> RunFails(t, "error")
               [] perm = "granted" ->
                      [t EXCEPT !.pc = "await_send", !.sending = summary_channel]

(* process_guild from its entry up to its first await or its return *)
FirstSegment(run, guild_id, ref, hours_back, is_weekly, perm) ==
    LET config == config_objects[ref]
        base == [IdleTask EXCEPT !.run = run, !.config = ref]
    IN  IF ~config.enabled \/ config.summary_channel = NoChannel
        THEN [base EXCEPT !.pc = "finished", !.end = "ineligible"]
        ELSE IF guild_id \notin guilds
        THEN [base EXCEPT !.pc = "finished", !.end = "no_guild"]
        ELSE LET messages_by_channel ==
                     get_messages_in_timerange(message_buffers, now, guild_id, hours_back)
                 q == [base EXCEPT !.queried = TRUE, !.input = messages_by_channel]
                 s == EnterSummarize(q, messages_by_channel, is_weekly)
             IN  IF SkipsEmpty(messages_by_channel)
                 THEN [q EXCEPT !.pc = "finished", !.end = "empty_window"]
                 ELSE IF s.pc = "await_api" THEN s ELSE Deliver(s, perm)

(* what the segment just run means for the fan-out *)
AfterSegment(f, t) ==
    IF t.pc = "finished" /\ t.end \in Errors /\ Propagates(t.end, parallel)
    THEN [f EXCEPT !.pc = "raised", !.error = t.end]
    ELSE IF ~parallel /\ t.pc = "finished"
    THEN [f EXCEPT !.pc = "seq_next"]
    ELSE f

(* the effects of a first segment outside the task's own record *)
StartEffects(guild_id, t) ==
    /\ message_buffers' = IF t.queried THEN Touch(message_buffers, guild_id)
                          ELSE message_buffers
    /\ IF t.queried /\ ~SkipsEmpty(t.input)
       THEN ResetOnNewDate
       ELSE UNCHANGED <<daily_api_calls, last_reset_date, counted>>
    /\ UNCHANGED <<cfgVars, usageVars, schedVars, now, query, cleaned, clock_steps, today, regVars, parallel, delivered>>

(* the registry as the fan-out finds it, kept for reference *)
Snapshot(cfgs) ==
    [i \in 1..Len(LiveSlots(cfgs)) |->
        [key |-> LiveSlots(cfgs)[i].key, ref |-> LiveSlots(cfgs)[i].ref,
         enabled |-> config_objects[LiveSlots(cfgs)[i].ref].enabled,
         bound |-> config_objects[LiveSlots(cfgs)[i].ref].summary_channel # NoChannel]]

(* post_scheduled_summary up to its first await *)
StartedFan(e) ==
    IF parallel
    THEN [IdleFan EXCEPT
             !.pc = IF Used(server_configs) = 0 THEN "done" ELSE "gather",
             !.hours_back = e.hours_back, !.is_weekly = e.is_weekly,
             !.order = Snapshot(server_configs)]
    ELSE [IdleFan EXCEPT
             !.pc = "seq_next",
             !.hours_back = e.hours_back, !.is_weekly = e.is_weekly,
             !.order = Snapshot(server_configs),
             !.it_pos = 1, !.it_len = Used(server_configs),
             !.it_used = Used(server_configs)]

FanoutStart ==
    \E e \in Triggers :
        /\ fan.pc = "idle"
        /\ tasks' = [g \in GuildIds |->
                        IF parallel /\ LiveIndex(server_configs, g) # 0
                        THEN [IdleTask EXCEPT
                                 !.pc = "created",
                                 !.run = Used(SubSeq(server_configs, 1,
                                                     LiveIndex(server_configs, g))),
                                 !.config = server_configs[LiveIndex(server_configs, g)].ref]
                        ELSE IdleTask]
        /\ fan' = StartedFan(e)
        /\ delivered' = {}
        /\ UNCHANGED <<cfgVars, usageVars, schedVars, bufVars, apiVars, regVars, parallel>>

(* the tasks take their first step in the order they were created *)
RunStart ==
    \E g \in GuildIds, perm \in Perms :
        /\ parallel /\ fan.pc = "gather"
        /\ tasks[g].pc = "created"
        /\ \A i, j \in 1..Len(fan.order) :
               (fan.order[j].key = g /\ i < j) => tasks[fan.order[i].key].pc # "created"
        /\ LET t == FirstSegment(tasks[g].run, g, tasks[g].config,
                                  fan.hours_back, fan.is_weekly, perm)
           IN  /\ tasks' = [tasks EXCEPT ![g] = t]
               /\ fan' = AfterSegment(fan, t)
               /\ StartEffects(g, t)

(* for guild_id, config in server_configs.items(): await process_guild(...) *)
SeqNext ==
    \E perm \in Perms :
        /\ ~parallel /\ fan.pc = "seq_next"
        /\ LET i == NextLive(server_configs, fan.it_pos)
           IN  IF Used(server_configs) # fan.it_used
               THEN /\ fan' = [fan EXCEPT !.pc = "raised", !.error = "changed size"]
                    /\ UNCHANGED <<cfgVars, usageVars, schedVars, bufVars, apiVars, tasks, regVars, parallel, delivered>>
               ELSE IF i = 0
               THEN /\ fan' = [fan EXCEPT !.pc = "done"]
                    /\ UNCHANGED <<cfgVars, usageVars, schedVars, bufVars, apiVars, tasks, regVars, parallel, delivered>>
               ELSE IF fan.it_len = 0
               THEN /\ fan' = [fan EXCEPT !.pc = "raised", !.error = "keys changed"]
                    /\ UNCHANGED <<cfgVars, usageVars, schedVars, bufVars, apiVars, tasks, regVars, parallel, delivered>>
               ELSE LET g == server_configs[i].key
                        t == FirstSegment(Len(fan.started) + 1, g, server_configs[i].ref,
                                          fan.hours_back, fan.is_weekly, perm)
                    IN  /\ tasks' = [tasks EXCEPT ![g] = t]
                        /\ fan' = AfterSegment(
                                      [fan EXCEPT !.pc = "seq_wait", !.it_pos = i + 1,
                                                  !.it_len = fan.it_len - 1,
                                                  !.started = Append(fan.started, g)], t)
                        /\ StartEffects(g, t)

(* the API call is over: count, pick the text, build the embed, go to send *)
RunResume ==
    \E g \in GuildIds, outcome \in ApiOutcomes, perm \in Perms :
        /\ fan.pc \in {"gather", "seq_wait"}
        /\ tasks[g].pc = "await_api"
        /\ daily_api_calls' = CallsAfter(daily_api_calls, outcome)
        /\ counted' = IF outcome \in {"content", "empty"} THEN counted + 1 ELSE counted
        /\ LET s == LeaveSummarize(tasks[g], outcome)
               t == IF s.pc = "raised" THEN RunFails(s, "error") ELSE Deliver(s, perm)
           IN  /\ tasks' = [tasks EXCEPT ![g] = t]
               /\ fan' = AfterSegment(fan, t)
        /\ counted_today' = IF outcome \in {"content", "empty"}
                            THEN counted_today + 1 ELSE counted_today
        /\ UNCHANGED <<cfgVars, usage_shown, schedVars, today, last_reset_date, bufVars, regVars, parallel, delivered>>

SendReturn ==
    \E g \in GuildIds, outcome \in SendOutcomes :
        /\ fan.pc \in {"gather", "seq_wait"}
        /\ tasks[g].pc = "await_send"
        /\ LET t == IF outcome = "ok"
                    THEN [tasks[g] EXCEPT !.pc = "finished", !.end = "delivered"]
                    ELSE RunFails(tasks[g], outcome)
           IN  /\ tasks' = [tasks EXCEPT ![g] = t]
               /\ fan' = AfterSegment(fan, t)
               /\ delivered' = IF outcome = "ok"
                               THEN delivered \cup {[guild |-> g, run |-> tasks[g].run,
                                                     channel |-> tasks[g].sending,
                                                     summary |-> tasks[g].result]}
                               ELSE delivered
        /\ UNCHANGED <<cfgVars, usageVars, schedVars, bufVars, apiVars, regVars, parallel>>

(* the awaited gather returns once every task is done *)
GatherDone ==
    /\ parallel /\ fan.pc = "gather"
    /\ \A i \in 1..Len(fan.order) : tasks[fan.order[i].key].pc = "finished"
    /\ fan' = [fan EXCEPT !.pc = "done"]
    /\ UNCHANGED <<cfgVars, usageVars, schedVars, bufVars, apiVars, tasks, regVars, parallel, delivered>>

(* scheduled_summary_task goes on after the fan-out it awaited: a weekly     *)
(* fan-out is followed by cleanup_old_messages                               *)
TickResume ==
    /\ fan.pc = "done"
    /\ fan' = [fan EXCEPT !.pc = "returned"]
    /\ IF fan.is_weekly
       THEN /\ message_buffers' = cleanup_old_messages(message_buffers, now)
            /\ cleaned' = [ran |-> TRUE, before |-> message_buffers]
       ELSE UNCHANGED <<message_buffers, cleaned>>
    /\ UNCHANGED <<cfgVars, usageVars, schedVars, now, query, clock_steps, apiVars, tasks, regVars,
                   parallel, delivered>>

(* a bot in service: on_ready has set up both guilds, toggle_summary may    *)
(* have disabled one, the bot channel may have been refused, and messages    *)
(* have come in at hours 1 and 7.                                            *)
FanNow == 7

FanMsg(created_at) == MessageData("alice", TxtHello, created_at, "general", 1, 0, 0)

FanBuffers ==
    { <<>>,
      BufferAppend(<<>>, 1, 1, FanMsg(7)),
      BufferAppend(BufferAppend(<<>>, 1, 1, FanMsg(7)), 2, 1, FanMsg(7)),
      BufferAppend(BufferAppend(<<>>, 1, 1, FanMsg(1)), 2, 1, FanMsg(7)) }

FanConfigs ==
    { << [summary_channel |-> BotChannel, enabled |-> TRUE],
         [summary_channel |-> BotChannel, enabled |-> TRUE] >>,
      << [summary_channel |-> BotChannel, enabled |-> TRUE],
         [summary_channel |-> BotChannel, enabled |-> FALSE] >>,
      << [summary_channel |-> NoChannel, enabled |-> TRUE],
         [summary_channel |-> BotChannel, enabled |-> TRUE] >> }

InitFanout ==
    /\ now = FanNow
    /\ message_buffers \in FanBuffers
    /\ query = NoQuery
    /\ cleaned = NoClean
    /\ clock_steps = 0
    /\ today = 0
    /\ daily_api_calls = 0
    /\ last_reset_date = 0
    /\ counted = 0
    /\ tasks = [g \in GuildIds |-> IdleTask]
    /\ config_objects \in FanConfigs
    /\ server_configs = << [key |-> 1, live |-> TRUE, ref |-> 1],
                           [key |-> 2, live |-> TRUE, ref |-> 2] >>
    /\ guilds = GuildIds
    /\ pending = {}
    /\ parallel \in BOOLEAN
    /\ fan = IdleFan
    /\ delivered = {}
    /\ MAX_MESSAGES_PER_SUMMARY = 100
    /\ wall = 0
    /\ next_iteration = 0
    /\ ticks = 0
    /\ triggers = <<>>
    /\ usage_shown = <<>>
    /\ counted_today = 0

NextFanout ==
    \/ FanoutStart \/ RunStart \/ SeqNext \/ RunResume \/ SendReturn \/ GatherDone
    \/ TickResume
    \/ GuildJoin \/ SetupGuild \/ GuildRemove \/ OnGuildRemove

SpecFanout == InitFanout /\ [][NextFanout]_vars

----------------------------------------------------------------------------
(* scheduled_summary_task under tasks.loop(minutes=1). The loop runs the     *)
(* body when it is started and then every LoopInterval seconds counted from  *)
(* that start; a wake-up comes at its due time or up to MaxLate seconds      *)
(* after it. The body reads the wall clock and compares hour and minute.     *)

LoopInterval == 60
MaxLate == 1
MaxTicks == 3

HourOf(w) == (w \div 3600) % 24
MinuteOf(w) == (w \div 60) % 60
WeekdayOf(w) == (w \div 86400) % 7

(* current_time.hour == scheduled_time.hour and the same for the minute *)
Matches(schedule, w) == HourOf(w) = schedule.hour /\ MinuteOf(w) = schedule.minute

(* now.weekday() == 6 and the weekly entry's hour and minute *)
WeeklyMatches(w) == WeekdayOf(w) = 6 /\ Matches(WEEKLY_SUMMARY_SCHEDULE, w)

(* the daily entries the body fires at w, in table order, then the weekly *)
RECURSIVE Fired(_, _)
Fired(w, i) ==
    IF i > Len(SUMMARY_SCHEDULE)
    THEN IF WeeklyMatches(w) THEN <<[entry |-> 0, minute |-> w \div 60]>> ELSE <<>>
    ELSE (IF Matches(SUMMARY_SCHEDULE[i], w)
          THEN <<[entry |-> i, minute |-> w \div 60]>> ELSE <<>>)
         \o Fired(w, i + 1)

TriggerOf(f) ==
    IF f.entry = 0
    THEN [hours_back |-> WEEKLY_SUMMARY_SCHEDULE.hours_back, is_weekly |-> TRUE]
    ELSE [hours_back |-> SUMMARY_SCHEDULE[f.entry].hours_back, is_weekly |-> FALSE]

(* one iteration, for a bot with no tenant registered: every fan-out it      *)
(* starts finds nothing to run and returns without suspending                *)
Tick ==
    /\ ticks < MaxTicks
    /\ wall >= next_iteration
    /\ Used(server_configs) = 0
    /\ LET fired == Fired(wall, 1)
       IN  /\ triggers' = triggers \o fired
           /\ IF fired # <<>>
              THEN /\ fan' = [StartedFan(TriggerOf(fired[Len(fired)])) EXCEPT !.pc = "done"]
                   /\ tasks' = [g \in GuildIds |-> IdleTask]
                   /\ delivered' = {}
              ELSE UNCHANGED <<fan, tasks, delivered>>
           /\ IF WeeklyMatches(wall)
              THEN /\ message_buffers' = cleanup_old_messages(message_buffers, now)
                   /\ cleaned' = [ran |-> TRUE, before |-> message_buffers]
              ELSE UNCHANGED <<message_buffers, cleaned>>
    /\ next_iteration' = next_iteration + LoopInterval
    /\ ticks' = ticks + 1
    /\ UNCHANGED <<cfgVars, usageVars, wall, now, query, clock_steps, apiVars, regVars, parallel>>

(* a second passes; a wake-up that is due is not kept waiting past MaxLate *)
Elapse ==
    /\ ticks < MaxTicks
    /\ wall < next_iteration + MaxLate
    /\ wall' = wall + 1
    /\ now' = wall' \div 3600
    /\ UNCHANGED <<cfgVars, usageVars, next_iteration, ticks, triggers, message_buffers, query, cleaned,
                   clock_steps, apiVars, tasks, regVars, fanVars>>

(* scheduled_summary_task.start() in on_ready: Monday, Saturday or Sunday, a  *)
(* minute before an entry of the table, at some second of that minute        *)
StartSeconds == {0, 30, 58, 59}
StartMinutes ==
    {20 * 60 + 59, 5 * 1440 + 20 * 60 + 59, 6 * 1440 + 20 * 60 + 59, 6 * 1440 + 2 * 60 + 59}

InitSched ==
    /\ wall \in {m * 60 + sec : m \in StartMinutes, sec \in StartSeconds}
    /\ next_iteration = wall
    /\ ticks = 0
    /\ triggers = <<>>
    /\ usage_shown = <<>>
    /\ counted_today = 0
    /\ now = wall \div 3600
    /\ message_buffers = <<>>
    /\ query = NoQuery
    /\ cleaned = NoClean
    /\ clock_steps = 0
    /\ today = 0
    /\ daily_api_calls = 0
    /\ last_reset_date = 0
    /\ counted = 0
    /\ tasks = [g \in GuildIds |-> IdleTask]
    /\ server_configs = <<>>
    /\ config_objects = <<>>
    /\ guilds = {}
    /\ pending = {}
    /\ parallel = TRUE
    /\ fan = IdleFan
    /\ delivered = {}
    /\ MAX_MESSAGES_PER_SUMMARY = 100

NextSched == Tick \/ Elapse

SpecSched == InitSched /\ [][NextSched]_vars

----------------------------------------------------------------------------
(* The scheduler loop with fan-outs that take time: the body is suspended at *)
(* 'await post_scheduled_summary(...)' while the wall clock goes on          *)

(* how long an awaited fan-out may keep the body beyond the seconds that     *)
(* Elapse counts: not at all, a minute and a half, or six hours and a minute *)
(* (summarization timeouts over many tenants, a slow delivery)               *)
FanoutSeconds == {0, 90, 21660}

(* the iteration starts: tasks.loop notes when the next one is due, the body *)
(* reads the clock once and makes the calls of the entries that match        *)
TickBegin ==
    /\ fan.pc = "idle"
    /\ ticks < MaxTicks
    /\ wall >= next_iteration
    /\ LET fired == Fired(wall, 1)
       IN  /\ triggers' = triggers \o fired
           /\ fan' = IF fired # <<>>
                     THEN [IdleFan EXCEPT !.pc = "awaited", !.is_weekly = WeeklyMatches(wall)]
                     ELSE fan
    /\ next_iteration' = next_iteration + LoopInterval
    /\ ticks' = ticks + 1
    /\ UNCHANGED <<cfgVars, usageVars, wall, bufVars, apiVars, tasks, regVars, parallel,
                   delivered>>

(* the awaited calls are over, some time later, and the body returns; an     *)
(* iteration that is overdue by then is run at once and the schedule counts  *)
(* from there                                                                *)
TickEnd ==
    \E d \in FanoutSeconds :
        /\ fan.pc = "awaited"
        /\ fan' = IdleFan
        /\ wall' = wall + d
        /\ now' = wall' \div 3600
        /\ IF fan.is_weekly
           THEN /\ message_buffers' = cleanup_old_messages(message_buffers, now')
                /\ cleaned' = [ran |-> TRUE, before |-> message_buffers]
           ELSE UNCHANGED <<message_buffers, cleaned>>
        /\ next_iteration' = IF wall' > next_iteration THEN wall' ELSE next_iteration
        /\ UNCHANGED <<cfgVars, usageVars, ticks, triggers, query, clock_steps,
                       apiVars, tasks, regVars, parallel, delivered>>

NextBusy == TickBegin \/ TickEnd \/ Elapse

SpecBusy == InitSched /\ [][NextBusy]_vars

----------------------------------------------------------------------------
(* The tenant registry between fan-outs: guild events, message events, the   *)
(* administrator commands and cleanup_task                                   *)

(* the text channels of a guild: an ordinary one and the bot's own *)
GuildChannels == { [id |-> 1, name |-> "general"], BotChannel }

CmdToggle == <<"!", "t">>
CmdSetChannel == <<"!", "s">>

(* no post_scheduled_summary is running *)
AtRest == fan.pc = "idle"

TenantJoin == \E g \in GuildIds : AtRest /\ guild_join(g)

TenantSetup ==
    \E g \in GuildIds, bot_channel \in {BotChannel, NoChannel} :
        AtRest /\ setup_guild(g, bot_channel)

TenantLeave == \E g \in GuildIds : AtRest /\ guild_remove(g)

TenantRemoved == \E g \in GuildIds : AtRest /\ on_guild_remove(g)

(* on_ready, fired again after a reconnect: setup_guild for every guild of    *)
(* bot.guilds, one call after the other                                      *)
OnReady ==
    /\ AtRest
    /\ guilds # {}
    /\ \A g \in guilds : <<"on_ready", g>> \notin pending
    /\ Len(config_objects) + Cardinality(pending) + Cardinality(guilds) <= MaxConfigs
    /\ pending' = pending \cup {<<"on_ready", g>> : g \in guilds}
    /\ UNCHANGED <<cfgVars, usageVars, schedVars, server_configs, config_objects, guilds, bufVars,
                   apiVars, tasks, fanVars>>

(* a message event of a guild in the cache *)
MessageEvent ==
    \E g \in guilds, channel \in GuildChannels, is_bot \in BOOLEAN :
        /\ AtRest
        /\ on_message(g, channel.id, channel.name, is_bot, now)

(* a command message of a human administrator: on_message stores it, then    *)
(* process_commands runs the command                                         *)
CommandMessage(g, channel, content) ==
    /\ Buffered < MaxMsgs
    /\ channel.name # BOT_CHANNEL_NAME
    /\ message_buffers' = BufferAppend(message_buffers, g, channel.id,
            MessageData("alice", content, now, channel.name, channel.id, 0, 0))
    /\ query' = NoQuery
    /\ cleaned' = NoClean

toggle_summary(cfgs, objects, guild_id) ==
    IF LiveIndex(cfgs, guild_id) # 0
    THEN [objects EXCEPT ![cfgs[LiveIndex(cfgs, guild_id)].ref].enabled = ~@]
    ELSE objects

(* the toggle_summary command sent in channel ctx of guild g *)
toggle_command(g, ctx) ==
    /\ CommandMessage(g, ctx, CmdToggle)
    /\ config_objects' = toggle_summary(server_configs, config_objects, g)
    /\ UNCHANGED <<cfgVars, usageVars, schedVars, now, clock_steps, server_configs, guilds, pending,
                   apiVars, tasks, fanVars>>

ToggleSummary ==
    \E g \in guilds, ctx \in GuildChannels : AtRest /\ toggle_command(g, ctx)

set_summary_channel(cfgs, objects, guild_id, channel) ==
    IF LiveIndex(cfgs, guild_id) # 0
    THEN [objects EXCEPT ![cfgs[LiveIndex(cfgs, guild_id)].ref].summary_channel = channel]
    ELSE objects

SetSummaryChannel ==
    \E g \in guilds, ctx \in GuildChannels, channel \in GuildChannels :
        /\ AtRest
        /\ CommandMessage(g, ctx, CmdSetChannel)
        /\ config_objects' = set_summary_channel(server_configs, config_objects, g, channel)
        /\ UNCHANGED <<cfgVars, usageVars, schedVars, now, clock_steps, server_configs, guilds, pending,
                       apiVars, tasks, fanVars>>

(* cleanup_task: the buffers of guilds without a config go, then             *)
(* cleanup_old_messages                                                      *)
DropUnconfigured(buffers, cfgs) ==
    [g \in {x \in DOMAIN buffers : LiveIndex(cfgs, x) # 0} |-> buffers[g]]

CleanupTask ==
    /\ AtRest
    /\ message_buffers' =
           cleanup_old_messages(DropUnconfigured(message_buffers, server_configs), now)
    /\ cleaned' = [ran |-> TRUE, before |-> message_buffers]
    /\ query' = NoQuery
    /\ UNCHANGED <<cfgVars, usageVars, schedVars, now, clock_steps, apiVars, tasks, regVars, fanVars>>

(* the registry under the guild events, the message events and the commands *)
NextTenants ==
    \/ TenantJoin \/ TenantSetup \/ TenantLeave \/ TenantRemoved \/ OnReady
    \/ MessageEvent \/ ToggleSummary \/ SetSummaryChannel

SpecTenants == InitAll /\ [][NextTenants]_vars

(* the buffer under the guild events, the message events and cleanup_task *)
NextMaintenance ==
    \/ TenantJoin \/ TenantSetup \/ TenantLeave \/ TenantRemoved
    \/ MessageEvent \/ CleanupTask \/ AdvanceClock

SpecMaintenance == InitAll /\ [][NextMaintenance]_vars

----------------------------------------------------------------------------
(* The fan-out with a toggle_summary or a removal while a run is suspended   *)

ToggleInFlight ==
    \E g \in guilds, ctx \in GuildChannels : Quiescent /\ toggle_command(g, ctx)

NextInFlight ==
    \/ FanoutStart \/ RunStart \/ SeqNext \/ RunResume \/ SendReturn \/ GatherDone
    \/ TickResume
    \/ GuildRemove \/ OnGuildRemove \/ ToggleInFlight

SpecInFlight == InitFanout /\ [][NextInFlight]_vars

----------------------------------------------------------------------------
(* The usage counter under summarization calls, date changes and api_usage   *)

(* the body of the api_usage command: the counter is reset on a new date and  *)
(* its value goes into the embed (the message carrying the command is a      *)
(* message event of its own, see on_message)                                 *)
ApiUsage ==
    /\ ResetOnNewDate
    /\ usage_shown' = <<daily_api_calls'>>
    /\ UNCHANGED <<cfgVars, counted_today, schedVars, bufVars, today, tasks, regVars, fanVars>>

NextUsage == Summarize \/ SummarizeReturn \/ DayRollover \/ ApiUsage

SpecUsage == InitAll /\ [][NextUsage]_vars

----------------------------------------------------------------------------
(* The concurrent fan-out with a send that never returns                     *)

(* await summary_channel.send(embed=embed) has no timeout: the call of one   *)
(* run is taken to stay pending for ever                                     *)
SendStalls ==
    \E g \in GuildIds :
        /\ parallel /\ fan.pc = "gather"
        /\ tasks[g].pc = "await_send"
        /\ \A h \in GuildIds : tasks[h].pc # "stalled"
        /\ tasks' = [tasks EXCEPT ![g].pc = "stalled"]
        /\ UNCHANGED <<cfgVars, usageVars, schedVars, bufVars, apiVars, regVars, fanVars>>

InitStall ==
    /\ now = FanNow
    /\ message_buffers \in FanBuffers
    /\ query = NoQuery
    /\ cleaned = NoClean
    /\ clock_steps = 0
    /\ today = 0
    /\ daily_api_calls = 0
    /\ last_reset_date = 0
    /\ counted = 0
    /\ tasks = [g \in GuildIds |-> IdleTask]
    /\ config_objects \in FanConfigs
    /\ server_configs = << [key |-> 1, live |-> TRUE, ref |-> 1],
                           [key |-> 2, live |-> TRUE, ref |-> 2] >>
    /\ guilds = GuildIds
    /\ pending = {}
    /\ parallel = TRUE
    /\ fan = IdleFan
    /\ delivered = {}
    /\ MAX_MESSAGES_PER_SUMMARY = 100
    /\ wall = 0
    /\ next_iteration = 0
    /\ ticks = 0
    /\ triggers = <<>>
    /\ usage_shown = <<>>
    /\ counted_today = 0

NextStall ==
    \/ FanoutStart \/ RunStart \/ RunResume \/ SendReturn \/ SendStalls
    \/ GatherDone \/ TickResume

(* the event loop runs every callback that is ready: each step that can be   *)
(* taken is taken, the stalled send alone never completes                    *)
SpecStall == InitStall /\ [][NextStall]_vars /\ WF_vars(NextStall)

----------------------------------------------------------------------------
(* The buffer on its own *)

NextBuffer == OnMessage \/ QueryRange \/ Cleanup \/ AdvanceClock

SpecBuffer == InitAll /\ [][NextBuffer]_vars

----------------------------------------------------------------------------
(* Claims about the buffer, checked under SpecBuffer *)

InResult(result, m) ==
    \E k \in 1..Len(result) : \E l \in 1..Len(result[k].val) : result[k].val[l] = m

(* C1: time-window correctness. After get_messages_in_timerange(tenant, H),  *)
(* a message buffered for the tenant in any of its sub-channels is in the    *)
(* result iff its timestamp is strictly newer than now - H, and no group of  *)
(* the result is empty.                                                      *)
C1_TimeWindowCorrect ==
    query.guild # 0 =>
        LET buf == BufferOf(query.guild)
            cutoff == now - query.hours_back
        IN /\ \A i \in 1..Len(buf) : \A j \in 1..Len(buf[i].val) :
                  InResult(query.result, buf[i].val[j]) <=> buf[i].val[j].timestamp > cutoff
           /\ \A k \in 1..Len(query.result) : query.result[k].val # <<>>

(* C2: retention. Right after cleanup_old_messages no sequence holds a       *)
(* message older than 168 hours, and the run removed only a prefix of each   *)
(* sequence, every removed message older than 168 hours.                     *)
C2_RetentionAfterCleanup ==
    cleaned.ran =>
        \A g \in DOMAIN message_buffers : \A i \in 1..Len(message_buffers[g]) :
            LET after == message_buffers[g][i].val
                before == cleaned.before[g][i].val
                cutoff == now - RETENTION_HOURS
            IN /\ \A j \in 1..Len(after) : after[j].timestamp >= cutoff
               /\ \E k \in 0..Len(before) :
                      /\ after = SubSeq(before, k + 1, Len(before))
                      /\ \A j \in 1..k : before[j].timestamp < cutoff

(* C3: time ordering. In every reachable state every (tenant, sub-channel)   *)
(* sequence is ordered by timestamp.                                         *)
C3_TimeOrdered ==
    \A g \in DOMAIN message_buffers : \A i \in 1..Len(message_buffers[g]) :
        LET messages == message_buffers[g][i].val
        IN \A j \in 1..(Len(messages) - 1) :
               messages[j].timestamp <= messages[j + 1].timestamp

(* C7: fallback on failure. When the external call times out or fails,      *)
(* summarize_all_channels_async raises nothing and returns                   *)
(* generate_simple_summary of the same input.                                *)
C7_FallbackOnFailure ==
    \A k \in GuildIds :
        tasks[k].api_outcome \in {"timeout", "error"} =>
            /\ tasks[k].pc = "returned"
            /\ tasks[k].result = generate_simple_summary(tasks[k].input)

C7_Witness ==
    \E k \in GuildIds :
        /\ tasks[k].pc = "returned"
        /\ tasks[k].api_outcome = "error"
        /\ tasks[k].result.lines # <<>>

(* C8: usage accounting. An invocation on a non-empty input issues exactly  *)
(* one network call, one on an empty input none; the counter counts exactly  *)
(* the calls that returned successfully since its last reset, also when      *)
(* invocations overlap.                                                      *)
C8_UsageAccounting ==
    /\ \A k \in GuildIds :
           /\ tasks[k].pc = "await_api" => tasks[k].api_calls = 1
           /\ tasks[k].pc = "returned" =>
                  tasks[k].api_calls = IF AnyMessages(tasks[k].input) THEN 1 ELSE 0
    /\ daily_api_calls = counted

C8_Witness ==
    \E k, l \in GuildIds :
        /\ tasks[k].pc = "returned" /\ tasks[k].api_outcome = "content"
        /\ tasks[l].pc = "returned" /\ tasks[l].api_outcome = "timeout"
        /\ daily_api_calls = 1

----------------------------------------------------------------------------
(* Claims about the fan-out, checked under SpecFanout *)

DeliveredTo(g) == \E d \in delivered : d.guild = g

(* the run recorded in t has had its digest posted *)
DeliveredBy(t) == \E d \in delivered : d.run = t.run

(* the tenant of a snapshot entry is still registered under the same config *)
StillRegistered(e) ==
    /\ e.key \in guilds
    /\ HandlersFor(e.key) = {}
    /\ LiveIndex(server_configs, e.key) # 0
    /\ server_configs[LiveIndex(server_configs, e.key)].ref = e.ref

FanoutOver == fan.pc \in {"done", "raised"}

(* C4: failure isolation in concurrent mode. With PARALLEL_SUMMARY true the  *)
(* fan-out never raises, and once it is complete every task it created has   *)
(* finished and every enabled, bound tenant with a non-empty window whose    *)
(* own delivery did not fail has its digest delivered, whatever happened in  *)
(* the runs of the other tenants.                                            *)
C4_ConcurrentIsolation ==
    parallel =>
        /\ fan.pc # "raised"
        /\ fan.pc = "done" =>
               \A i \in 1..Len(fan.order) :
                   LET e == fan.order[i]
                       t == tasks[e.key]
                   IN  /\ t.pc = "finished"
                       /\ ( /\ e.enabled /\ e.bound
                            /\ t.queried /\ t.input # <<>>
                            /\ t.end \notin {"unbound", "no_permission", "forbidden", "error"} )
                          => \E d \in delivered :
                                 /\ d.guild = e.key /\ d.run = t.run
                                 /\ d.summary = t.result
                                 /\ d.channel = config_objects[e.ref].summary_channel

C4_Witness ==
    /\ parallel /\ fan.pc = "done"
    /\ \E a, b \in GuildIds :
           /\ a # b
           /\ tasks[a].end \in Errors
           /\ tasks[b].end = "delivered" /\ DeliveredTo(b)

(* C5: failure isolation in sequential mode. With PARALLEL_SUMMARY false the *)
(* runs are started in registration order, and when the fan-out is over, an  *)
(* error in one tenant's run has not kept any later tenant of the order,     *)
(* enabled, bound and still registered, from being run.                      *)
C5_SequentialIsolation ==
    (~parallel /\ FanoutOver) =>
        /\ \A i, j \in 1..Len(fan.started) :
               i < j => \E k, l \in 1..Len(fan.order) :
                            /\ k < l
                            /\ fan.order[k].key = fan.started[i]
                            /\ fan.order[l].key = fan.started[j]
        /\ \A i, j \in 1..Len(fan.order) :
               ( /\ i < j
                 /\ tasks[fan.order[i].key].end \in Errors
                 /\ fan.order[j].enabled /\ fan.order[j].bound
                 /\ StillRegistered(fan.order[j]) )
               => tasks[fan.order[j].key].pc # "idle"

(* C9: fan-out eligibility. When the fan-out is over, every tenant that was  *)
(* enabled and bound at the trigger, and is still registered, has had its    *)
(* run (the window was queried), and for a tenant that was disabled or       *)
(* unbound no summarization call and no delivery call was made.              *)
C9_FanoutEligibility ==
    FanoutOver =>
        \A i \in 1..Len(fan.order) :
            LET e == fan.order[i]
                t == tasks[e.key]
            IN  /\ (e.enabled /\ e.bound /\ StillRegistered(e)) => t.queried
                /\ (~e.enabled \/ ~e.bound) /\ t.config = e.ref =>
                       /\ t.api_calls = 0
                       /\ t.pc # "await_send"
                       /\ ~DeliveredBy(t)

(* C10: empty-window skip. A run whose window query returned no messages     *)
(* makes no summarization call and no delivery call, and the step that runs  *)
(* it leaves the usage counter as it was.                                    *)
C10_EmptyWindowSkip ==
    /\ [](\A g \in GuildIds :
              (tasks[g].queried /\ tasks[g].input = <<>>) =>
                  /\ tasks[g].api_calls = 0
                  /\ tasks[g].pc = "finished"
                  /\ tasks[g].end = "empty_window"
                  /\ ~DeliveredBy(tasks[g]))
    /\ [][\A g \in GuildIds :
              (~tasks[g].queried /\ tasks'[g].queried /\ tasks'[g].input = <<>>) =>
                  daily_api_calls' = daily_api_calls]_vars

C10_Witness ==
    /\ fan.pc = "done"
    /\ \E g \in GuildIds :
           /\ tasks[g].queried /\ tasks[g].input = <<>>
           /\ tasks[g].end = "empty_window" /\ ~DeliveredTo(g)
           /\ g \in DOMAIN message_buffers
           /\ message_buffers[g] # <<>>
    /\ \E h \in GuildIds : tasks[h].end = "delivered"

----------------------------------------------------------------------------
(* Claims about the scheduler, checked under SpecSched *)

LoopStart == next_iteration - LoopInterval * ticks

Count(i, m) ==
    Cardinality({k \in 1..Len(triggers) : triggers[k].entry = i /\ triggers[k].minute = m})

(* C6: scheduler exactly-once. Every trigger of a daily entry is made in a   *)
(* minute whose hour and minute equal the entry's; no such minute sees the   *)
(* entry triggered twice; and a matching minute that has gone by entirely    *)
(* with the loop running has seen it triggered once.                         *)
C6_ExactlyOnce ==
    /\ \A k \in 1..Len(triggers) :
           triggers[k].entry # 0 =>
               Matches(SUMMARY_SCHEDULE[triggers[k].entry], triggers[k].minute * 60)
    /\ \A i \in 1..Len(SUMMARY_SCHEDULE) :
           \A m \in (LoopStart \div 60)..(wall \div 60) :
               Matches(SUMMARY_SCHEDULE[i], m * 60) =>
                   /\ Count(i, m) <= 1
                   /\ (LoopStart <= m * 60 /\ wall >= (m + 1) * 60) => Count(i, m) = 1

(* C11: weekly trigger condition. Every weekly fan-out is triggered in a     *)
(* minute whose weekday is the weekday of WEEKLY_SUMMARY_SCHEDULE and whose  *)
(* hour and minute are that entry's.                                         *)
C11_WeeklyCondition ==
    \A k \in 1..Len(triggers) :
        triggers[k].entry = 0 =>
            /\ WeekdayOf(triggers[k].minute * 60) = WEEKLY_SUMMARY_SCHEDULE.weekday
            /\ Matches(WEEKLY_SUMMARY_SCHEDULE, triggers[k].minute * 60)

(* C12: prune after weekly. Once the tick that fired the weekly fan-out is   *)
(* over, the prune pass has run; and the pass has run only with every run of *)
(* the fan-out finished, in both modes.                                      *)
C12_PruneAfterWeekly ==
    /\ (fan.is_weekly /\ fan.pc \in {"returned", "raised"}) => cleaned.ran
    /\ cleaned.ran =>
           /\ fan.is_weekly /\ fan.pc = "returned"
           /\ \A i \in 1..Len(fan.order) :
                  tasks[fan.order[i].key].pc \in {"idle", "finished"}

----------------------------------------------------------------------------
(* Claims about the summarization input, checked under SpecCap *)

IsSuffix(part, whole) ==
    /\ Len(part) <= Len(whole)
    /\ part = SubSeq(whole, Len(whole) - Len(part) + 1, Len(whole))

(* C13: per-channel cap. The document passed to the summarization call holds *)
(* for every sub-channel group at most N of its messages on a standard run   *)
(* and at most 2N on a weekly run, these are the most recent ones in order,  *)
(* and the input the caller passed is as it was.                             *)
C13_PerChannelCap ==
    \A k \in GuildIds :
        tasks[k].pc = "await_api" =>
            LET t == tasks[k]
                N == MAX_MESSAGES_PER_SUMMARY
            IN  /\ t.input \in SummInputs
                /\ \A i \in 1..Len(t.document) :
                       LET messages == DictGet(t.input, t.document[i].channel)
                           texts == t.document[i].texts
                       IN  /\ Len(texts) <= (IF t.is_weekly THEN 2 * N ELSE N)
                           /\ IsSuffix(texts,
                                  [j \in 1..Len(messages) |-> MessageText(messages[j])])

----------------------------------------------------------------------------
(* Claims about the local fallback summarizer, checked under SpecSumm *)

RECURSIVE AllWords(_, _)
AllWords(messages, i) ==
    IF i > Len(messages) THEN <<>>
    ELSE Words(messages[i].content) \o AllWords(messages, i + 1)

(* the lower-cased whitespace-separated tokens longer than 4, as they come *)
LongTokens(messages) == SelectSeq(AllWords(messages, 1), LAMBDA w : Len(w) > 4)

Freq(tokens, w) == Cardinality({i \in 1..Len(tokens) : tokens[i] = w})

FirstSeen(tokens, w) ==
    CHOOSE i \in 1..Len(tokens) : tokens[i] = w /\ \A j \in 1..(i - 1) : tokens[j] # w

Beats(tokens, v, w) ==
    \/ Freq(tokens, v) > Freq(tokens, w)
    \/ Freq(tokens, v) = Freq(tokens, w) /\ FirstSeen(tokens, v) < FirstSeen(tokens, w)

ExpectedKeywords(tokens) ==
    LET D == {tokens[i] : i \in 1..Len(tokens)}
        n == IF Cardinality(D) < 3 THEN Cardinality(D) ELSE 3
    IN  [r \in 1..n |->
            CHOOSE w \in D : Cardinality({v \in D : Beats(tokens, v, w)}) = r - 1]

ExpectedSummary(messages_by_channel) ==
    LET named == SelectSeq(messages_by_channel, LAMBDA e : LongTokens(e.val) # <<>>)
        lines == [i \in 1..Len(named) |->
                     [channel |-> named[i].key,
                      keywords |-> ExpectedKeywords(LongTokens(named[i].val))]]
    IN  IF Len(named) = 0 THEN NoTopicFound ELSE KeywordLines(lines)

C15_ResultDomain ==
    \A k \in GuildIds :
        tasks[k].pc = "returned" =>
            \/ tasks[k].result = Narrative
            \/ tasks[k].result = generate_simple_summary(tasks[k].input)
            \/ tasks[k].result = NothingToSummarize

----------------------------------------------------------------------------
(* Claims about the registry *)

Tombstone(g) ==
    \E i \in 1..Len(server_configs) : server_configs[i].key = g /\ ~server_configs[i].live

(* C16: tenant leave. The step in which on_guild_remove runs for a tenant    *)
(* leaves that tenant without a config and without any buffer, and leaves    *)
(* the config and the buffered messages of every other tenant as they were.  *)
C16_TenantLeave ==
    [][\A g \in GuildIds :
           (<<"on_guild_remove", g>> \in pending /\ <<"on_guild_remove", g>> \notin pending') =>
               /\ LiveIndex(server_configs', g) = 0
               /\ g \notin DOMAIN message_buffers'
               /\ config_objects' = config_objects
               /\ \A h \in GuildIds \ {g} :
                      /\ LiveIndex(server_configs', h) = LiveIndex(server_configs, h)
                      /\ LiveIndex(server_configs, h) # 0 =>
                             server_configs'[LiveIndex(server_configs, h)]
                                 = server_configs[LiveIndex(server_configs, h)]
                      /\ (h \in DOMAIN message_buffers') = (h \in DOMAIN message_buffers)
                      /\ h \in DOMAIN message_buffers =>
                             message_buffers'[h] = message_buffers[h]]_vars

C16_Witness ==
    \E g, h \in GuildIds :
        /\ g # h /\ pending = {}
        /\ Tombstone(g) /\ LiveIndex(server_configs, g) = 0
        /\ tasks[g].input # <<>>
        /\ g \notin DOMAIN message_buffers
        /\ LiveIndex(server_configs, h) # 0
        /\ h \in DOMAIN message_buffers /\ message_buffers[h] # <<>>

(* the messages buffered for a guild, over all its channels *)
BufferedOf(buffers, g) ==
    IF g \in DOMAIN buffers
    THEN UNION { { buffers[g][i].val[j] : j \in 1..Len(buffers[g][i].val) } :
                     i \in 1..Len(buffers[g]) }
    ELSE {}

(* the config object stored under the guild's key *)
ConfigOf(cfgs, objects, g) == objects[cfgs[LiveIndex(cfgs, g)].ref]

(* C17: in every reachable state, also after set_summary_channel has rebound  *)
(* the destination, the buffer holds no message whose channel is the guild's *)
(* summary channel and no message of a bot author.                           *)
C17_IngestionFilter ==
    \A g \in DOMAIN message_buffers :
        \A m \in BufferedOf(message_buffers, g) :
            /\ m.author # "robo"
            /\ LiveIndex(server_configs, g) # 0 =>
                   m.channel_id # ConfigOf(server_configs, config_objects, g).summary_channel.id

(* C18: a setup_guild call for a guild that already has a config leaves the  *)
(* config's enabled flag and its summary channel as they were.               *)
C18_SetupCreatesOnly ==
    [][\A g \in GuildIds :
          (/\ LiveIndex(server_configs, g) # 0
           /\ \E bot_channel \in {BotChannel, NoChannel} : setup_guild(g, bot_channel))
          => ConfigOf(server_configs', config_objects', g)
                 = ConfigOf(server_configs, config_objects, g)]_vars

(* C19: after a cleanup_task pass no buffer is left for a guild that is not  *)
(* in the client's cache, and of a guild that is in the cache the pass has   *)
(* removed only messages older than RETENTION_HOURS.                         *)
C19_MaintenancePass ==
    [][CleanupTask =>
          /\ DOMAIN message_buffers' \subseteq guilds
          /\ \A g \in guilds :
                 \A m \in BufferedOf(message_buffers, g) :
                     m.timestamp >= now - RETENTION_HOURS
                         => m \in BufferedOf(message_buffers', g)]_vars

(* C20: in concurrent mode, once one run's send has stalled for good, every  *)
(* other run still comes to its end and post_scheduled_summary returns to    *)
(* the scheduler tick that awaits it.                                        *)
C20_StalledDelivery ==
    \A g \in GuildIds :
        (tasks[g].pc = "stalled") ~>
            (/\ \A h \in GuildIds \ {g} : tasks[h].pc \in {"idle", "finished"}
             /\ fan.pc = "returned")

(* the half about the siblings alone *)
C20_SiblingsFinish ==
    \A g \in GuildIds :
        (tasks[g].pc = "stalled") ~>
            (\A h \in GuildIds \ {g} : tasks[h].pc \in {"idle", "finished"})

(* C21: whenever api_usage reads the counter, the value it shows is the      *)
(* number of successful summarization calls counted on the current date,     *)
(* also when a call starts before the date changes and completes after it.   *)
C21_CounterDateDiscipline ==
    [][ApiUsage => usage_shown' = <<counted_today>>]_vars

(* C22: get_messages_in_timerange leaves message_buffers as it was, for a    *)
(* guild with buffered messages and for one without: nothing is added,       *)
(* removed or reordered and no guild or channel key is created.              *)
C22_QueryPure ==
    [][QueryRange => message_buffers' = message_buffers]_vars

(* does minute m match entry i of the table (0: the weekly entry) *)
EntryMatches(i, m) ==
    IF i = 0
    THEN /\ WeekdayOf(m * 60) = WEEKLY_SUMMARY_SCHEDULE.weekday
         /\ Matches(WEEKLY_SUMMARY_SCHEDULE, m * 60)
    ELSE Matches(SUMMARY_SCHEDULE[i], m * 60)

TriggeredFor(trigs, i, m) ==
    \E k \in 1..Len(trigs) : trigs[k].entry = i /\ trigs[k].minute = m

(* C23: no trigger is missed while the loop runs. When a minute that matches *)
(* an entry, daily or weekly, has gone by, that entry has been triggered for *)
(* that minute, however long an earlier fan-out kept the body.               *)
C23_NoTriggerMissed ==
    [][\A m \in (wall \div 60)..((wall' \div 60) - 1) :
          \A i \in 0..Len(SUMMARY_SCHEDULE) :
              EntryMatches(i, m) => TriggeredFor(triggers', i, m)]_vars

(* C24: registry changes during a fan-out are harmless. When a guild has     *)
(* joined or left while the fan-out was suspended, the fan-out, concurrent   *)
(* or sequential, ends without raising, and every other guild that was       *)
(* enabled and bound at its start has had its run.                           *)
C24_RegistryChangeHarmless ==
    FanoutOver =>
        /\ fan.pc # "raised"
        /\ \A i \in 1..Len(fan.order) :
               LET e == fan.order[i]
               IN  (e.enabled /\ e.bound /\ StillRegistered(e)) => tasks[e.key].queried

(* the same for the concurrent mode alone *)
C24_ConcurrentHalf == parallel => C24_RegistryChangeHarmless

(* the step makes the delivery call of guild g's run *)
CallsSend(g) == tasks[g].pc # "await_send" /\ tasks'[g].pc = "await_send"

(* C25: no delivery to a disabled or departed guild. A run makes its         *)
(* delivery call only if at that moment the guild has a config in            *)
(* server_configs and the config is enabled: a toggle_summary or an          *)
(* on_guild_remove during the run's summarization call prevents the call.    *)
C25_NoDeliveryToDisabled ==
    [][\A g \in GuildIds :
          CallsSend(g) =>
              /\ LiveIndex(server_configs, g) # 0
              /\ ConfigOf(server_configs, config_objects, g).enabled]_vars

====
